---- MODULE Spec2Model ----
(***************************************************************************)
(* Cross-modal recommendation backend: the vector store (FAISSIndex), the  *)
(* Redis cache manager and the search service that sits on top of them.    *)
(*                                                                         *)
(* Embeddings are modelled as plane vectors [ang, len]: a direction in     *)
(* degrees (a multiple of 30) and a norm scaled by 1000 (1000 = unit).     *)
(* Every score is scaled by 1000 as well, so 1000 stands for 1.0.          *)
(***************************************************************************)
EXTENDS Integers, Sequences, FiniteSets, TLC

\* ---------------------------------------------------------------- bounds
MaxProducts == 2
MaxBatch == 2
MaxK == 2
MaxAge == 2
MaxCandidates == 3

MaxResults == 3

\* ------------------------------------------------------- program constants
\* search_k = min(top_k * 3, n) and min(n, max(top_k * 5, 50))
SearchOverfetch == 3
HybridOverfetch == 5
HybridMinCandidates == 50
\* faiss_index.search(query_vec, min(top_k * 2, 20)) of the multipart route
MultipartOverfetch == 2
MultipartMaxCandidates == 20
\* live search: priority defaults {'image': 0.6, 'text': 0.4} and the boost
\* cap min(boost, 2.0), in hundredths
DefaultImageWeight == 60
DefaultTextWeight == 40
BoostCap == 200
\* time-to-live values in seconds: default_ttl, search results, embeddings
DefaultTTL == 86400
SearchTTL == 3600
EmbeddingTTL == 86400

\* ------------------------------------------------------------ vector maths
Abs(x) == IF x < 0 THEN 0 - x ELSE x

Min(a, b) == IF a < b THEN a ELSE b

Max(a, b) == IF a > b THEN a ELSE b

\* cosine of an angle of d degrees (d a multiple of 30 in 0..180), times 1000
Cos1000(d) ==
  CASE d = 0 -> 1000
    [] d = 30 -> 866
    [] d = 60 -> 500
    [] d = 90 -> 0
    [] d = 120 -> 0 - 500
    [] d = 150 -> 0 - 866
    [] OTHER -> 0 - 1000

\* scores and norms are scaled: Unit stands for 1.0
Unit == Cos1000(0)

\* min_score: float = -1.0
DefaultMinScore == 0 - Unit

\* stands for FLT_MAX, the distance of a neighbour slot the index could not fill
FltMax == 1000 * Unit

Vec(a, l) == [ang |-> a, len |-> l]

\* the Python value None where an embedding is optional
NoneVec == Vec(0, 0)

\* v / np.linalg.norm(v): same direction, unit norm
Normalize(v) == Vec(v.ang, Unit)

\* np.dot(u, v)
Dot(u, v) == (u.len * v.len * Cos1000(Abs(u.ang - v.ang))) \div (Unit * Unit)

\* alpha * img + (1 - alpha) * txt for unit vectors, alpha in percent
WeightedSum(img, txt, alpha) ==
  CASE alpha = 100 -> Vec(img.ang, Unit)
    [] alpha = 0 -> Vec(txt.ang, Unit)
    [] OTHER -> Vec((img.ang + txt.ang) \div 2,
                    Cos1000(Abs(img.ang - txt.ang) \div 2))

\* ------------------------------------------------------------ input domains
StrId(n) == [t |-> "str", v |-> n]

IntId(n) == [t |-> "int", v |-> n]

\* str(product_id)
Str(id) == id.v

\* stands for None where a price is optional: the price of a record without
\* the key 'price', a price bound the request leaves out
NoPrice == 0 - Unit

\* price in whole currency units
Meta(id, cat, price, txt, img) ==
  [product_id |-> id, category |-> cat, price |-> price,
   text_embedding |-> txt, image_embedding |-> img]

\* the products callers insert: a vector to index and the metadata that goes with it
\*  - a record without raw embeddings, as the startup indexing writes it
\*  - records with both raw embeddings, as the index build script writes them
Products ==
  { [vec |-> Vec(0, 2000),   meta |-> Meta(StrId(1), "Tops", 30, NoneVec, NoneVec)],
    [vec |-> Vec(60, 1000),  meta |-> Meta(StrId(2), "Dresses", 50, Vec(0, 1000), Vec(120, 1000))],
    [vec |-> Vec(120, 1000), meta |-> Meta(IntId(1), "Tops", NoPrice, Vec(60, 2000), Vec(60, 1000))] }

Metas == { p.meta : p \in Products }

ProductIds == { m.product_id : m \in Metas }

QueryVecs == { Vec(0, 1000), Vec(120, 2000) }

IndexTypes == { "HNSW", "Flat" }

\* index            the vectors of self.index, in insertion order
\* product_metadata self.product_metadata
\* origin           ghost, parallel to product_metadata: the index position whose
\*                  vector was inserted together with the record (0 once that
\*                  vector is gone from the index)
\* index_type       self.index_type
\* diskIndex/diskMeta  the files products.index and metadata.json under index_path
\* out              outcome of the last store operation
VARIABLES index, product_metadata, origin, index_type, diskIndex, diskMeta, out

\* client     self.client of RedisCacheManager: "none" (None) or "conn"
\* reachable  whether the Redis server answers right now
\* redis      the server's keyspace: key -> entry
\* cout       outcome of the last cache-manager or search-service call
VARIABLES client, reachable, redis, cout

\* live       outcome of the last request to the live-catalogue search service
VARIABLES live

\* pending    an insert that has run its first statement and not yet its second:
\*            whether there is one, and the store its second statement leaves
VARIABLES pending

storeVars == <<index, product_metadata, origin, index_type, diskIndex, diskMeta, out>>

cacheVars == <<client, reachable, redis, cout>>

vars == <<storeVars, cacheVars, live, pending>>

NoArgs == [query |-> NoneVec, text |-> NoneVec, image |-> NoneVec, alpha |-> 0,
           top_k |-> 0, filter_categories |-> {}, min_score |-> DefaultMinScore,
           category_filter |-> "", price_min |-> NoPrice, price_max |-> NoPrice,
           product_id |-> StrId(0), method |-> "", raised |-> "",
           items |-> <<>>, diversity_weight |-> 0]

NoOut == [op |-> "none", ok |-> TRUE, results |-> <<>>, args |-> NoArgs]

\* ------------------------------------------------------- cache data model
\* a search request of the service
Req(text, image, method, filters, top_k) ==
  [text |-> text, image |-> image, alpha |-> 70, method |-> method,
   filters |-> filters, top_k |-> top_k, diversity_weight |-> 0]

\* text "" and image "" stand for None; filters "" for None / {}
Requests ==
  { Req(t, i, "weighted_avg", "", k) : t \in {"", "shirt"}, i \in {"", "img"}, k \in 1..MaxK }
  \cup { Req("shirt", "img", "bogus", "", 1), Req("shirt", "", "weighted_avg", "Tops", 1) }

\* RedisCacheManager._generate_key: namespace and md5 of the identifier; the
\* identifier stands for its digest (md5 taken as injective)
GenerateKey(prefix, identifier) == [ns |-> prefix, id |-> identifier]

\* SearchService._generate_search_cache_key: '|'.join of text, image digest,
\* alpha, method, filters
SearchFingerprint(r) == <<r.text, r.image, r.alpha, r.method, r.filters>>

SearchKey(r) == GenerateKey("search", SearchFingerprint(r))

EmbeddingKey(kind, content) == GenerateKey("embedding", <<kind, content>>)

SearchKeys == { SearchKey(r) : r \in Requests }

EmbeddingKeys == { EmbeddingKey("text", "shirt"), EmbeddingKey("image", "img") }

Keys == SearchKeys \cup EmbeddingKeys

\* the keys and values callers pass to set / cache_search_results directly
DirectKeys == { SearchKey(Req("shirt", "", "weighted_avg", "", 1)),
                SearchKey(Req("shirt", "img", "weighted_avg", "", 1)) }

ResultLists == { <<>>, <<"r1", "r2">> }

\* ttl arguments of direct calls: 0 stands for None / 0 (falsy)
DirectTTLs == { 0, SearchTTL }

\* the clock advances in steps of the shortest time-to-live
TickStep == SearchTTL

Patterns == { "cmrs:search:*", "cmrs:*" }

\* pickle.dumps / pickle.loads
Pickle(v) == [pickled |-> v]

Unpickle(d) == d.pickled

\* a key of the server: data (pickled), life = the expiry SETEX was given,
\* age = hours since the write, ttl (ghost) = the ttl argument of set
Absent == [present |-> FALSE, data |-> Pickle(<<>>), life |-> 0, age |-> 0, ttl |-> 0]

Entry(v, life, ttl) == [present |-> TRUE, data |-> Pickle(v), life |-> life, age |-> 0, ttl |-> ttl]

\* return values
RetNone == [kind |-> "none", b |-> FALSE, v |-> <<>>, n |-> 0]

RetBool(b) == [kind |-> "bool", b |-> b, v |-> <<>>, n |-> 0]

RetVal(v) == [kind |-> "val", b |-> FALSE, v |-> v, n |-> 0]

RetInt(n) == [kind |-> "int", b |-> FALSE, v |-> <<>>, n |-> n]

\* a field the JSON body of POST /recommend leaves out
Omitted == "<omitted>"

\* bodies of POST /recommend: text, image (base64) and alpha in hundredths
Payloads ==
  [text : {Omitted, "", "shirt"}, image : {Omitted, "", "img"}, alpha : {70}]
  \cup { [text |-> "shirt", image |-> Omitted, alpha |-> 150] }

NoPayload == [text |-> Omitted, image |-> Omitted, alpha |-> 70]

\* outcome of a call: returned value, whether an exception left the call, and
\* (ghost) whether the server answered the availability probe and the command,
\* and the steps the call went through
NoCout == [op |-> "none", key |-> GenerateKey("", <<>>), ret |-> RetNone,
           raised |-> "", req |-> Req("", "", "", "", 0), cache_hit |-> FALSE,
           probeOk |-> TRUE, cmdOk |-> TRUE, trace |-> <<>>, status |-> 0,
           payload |-> NoPayload]

\* RedisCacheManager.__init__: redis.ConnectionError on ping leaves client = None
CacheInit ==
  /\ reachable \in BOOLEAN
  /\ client = IF reachable THEN "conn" ELSE "none"
  /\ redis = [k \in Keys |-> Absent]
  /\ cout = NoCout

\* no request to the live-catalogue search service has been made
NoLive == [op |-> "none"]

LiveOff == live = NoLive

\* no insert is under way
NoPending == [active |-> FALSE, index |-> <<>>, product_metadata |-> <<>>, origin |-> <<>>]

NoInsert == pending = NoPending

\* no Redis server: the application runs with caching disabled
CacheOff ==
  /\ reachable = FALSE
  /\ client = "none"
  /\ redis = [k \in Keys |-> Absent]
  /\ cout = NoCout

\* a file of the index directory: whether it exists, what it holds and, for
\* metadata.json, (ghost) the origin of each record
NoFile == [exists |-> FALSE, data |-> <<>>, origin |-> <<>>]

File(data, org) == [exists |-> TRUE, data |-> data, origin |-> org]

\* the application constructs FAISSIndex(index_type="HNSW") over an empty directory
StoreInit ==
  /\ index_type = "HNSW"
  /\ index = <<>>
  /\ product_metadata = <<>>
  /\ origin = <<>>
  /\ diskIndex = NoFile
  /\ diskMeta = NoFile
  /\ out = NoOut

Init ==
  /\ StoreInit
  /\ CacheOff
  /\ LiveOff
  /\ NoInsert

\* the caller issues one store operation at a time: an operation starts when the
\* outcome of the previous one has been taken
Idle == out = NoOut

\* the caller takes the returned value
Return ==
  /\ ~Idle
  /\ out' = NoOut
  /\ UNCHANGED <<index, product_metadata, origin, index_type, diskIndex, diskMeta, cacheVars, live, pending>>

\* FAISSIndex._initialize_index: a fresh empty index (metadata untouched)
InitializedIndex == <<>>

\* all sequences over S of length 1..n
RECURSIVE SeqsUpTo(_, _)
SeqsUpTo(S, n) ==
  IF n = 0 THEN {}
  ELSE LET shorter == SeqsUpTo(S, n - 1)
       IN  { <<x>> : x \in S } \cup shorter \cup
           { Append(q, x) : q \in { r \in shorter : Len(r) = n - 1 }, x \in S }

Batches == SeqsUpTo(Products, MaxBatch)

VecsOf(batch) == [i \in 1..Len(batch) |-> Normalize(batch[i].vec)]

MetasOf(batch) == [i \in 1..Len(batch) |-> batch[i].meta]

\* position (1-based) of the first record whose product_id == pid, 0 if none
FirstMatch(meta, pid) ==
  LET hits == { i \in 1..Len(meta) : meta[i].product_id = pid }
  IN  IF hits = {} THEN 0 ELSE CHOOSE i \in hits : \A j \in hits : i <= j

\* list.pop(i)
Pop(s, i) == [j \in 1..(Len(s) - 1) |-> IF j < i THEN s[j] ELSE s[j + 1]]

add_product(p) ==
  /\ Idle
  /\ Len(index) < MaxProducts
  /\ Len(product_metadata) < MaxProducts
  /\ index' = Append(index, Normalize(p.vec))
  /\ product_metadata' = Append(product_metadata, p.meta)
  /\ origin' = Append(origin, Len(index) + 1)
  /\ out' = NoOut
  /\ UNCHANGED <<index_type, diskIndex, diskMeta, cacheVars, live, pending>>

add_batch_products(batch) ==
  /\ Idle
  /\ Len(index) + Len(batch) <= MaxProducts
  /\ Len(product_metadata) + Len(batch) <= MaxProducts
  /\ index' = index \o VecsOf(batch)
  /\ product_metadata' = product_metadata \o MetasOf(batch)
  /\ origin' = origin \o [i \in 1..Len(batch) |-> Len(index) + i]
  /\ out' = NoOut
  /\ UNCHANGED <<index_type, diskIndex, diskMeta, cacheVars, live, pending>>

\* POST /ecommerce/search-and-embed: the fetched products that could be
\* embedded are added in one batch (nothing is added when there are none)
search_and_embed_products(fetched) ==
  /\ fetched # <<>>
  /\ add_batch_products(fetched)

\* FAISSIndex.get_product_by_id: position (1-based) of the first record with
\* str(metadata.get('product_id')) == str(product_id), 0 if none (None)
GetProductById(meta, pid) ==
  LET hits == { i \in 1..Len(meta) : Str(meta[i].product_id) = Str(pid) }
  IN  IF hits = {} THEN 0 ELSE CHOOSE i \in hits : \A j \in hits : i <= j

get_product_by_id(pid) ==
  LET i == GetProductById(product_metadata, pid)
  IN  /\ Idle
      /\ out' = [NoOut EXCEPT !.op = "get_product_by_id", !.ok = (i # 0),
                              !.args.product_id = pid]
      /\ UNCHANGED <<index, product_metadata, origin, index_type, diskIndex, diskMeta, cacheVars, live, pending>>

remove_product(pid) ==
  LET i == FirstMatch(product_metadata, pid)
  IN  /\ Idle
      /\ product_metadata' = IF i = 0 THEN product_metadata ELSE Pop(product_metadata, i)
      /\ origin' = IF i = 0 THEN origin ELSE Pop(origin, i)
      /\ out' = [NoOut EXCEPT !.op = "remove_product", !.ok = (i # 0),
                              !.args.product_id = pid]
      /\ UNCHANGED <<index, index_type, diskIndex, diskMeta, cacheVars, live, pending>>

\* the new record takes the table position of the old one (origin unchanged)
update_product(pid, m) ==
  LET i == FirstMatch(product_metadata, pid)
  IN  /\ Idle
      /\ product_metadata' =
           IF i = 0 THEN product_metadata ELSE [product_metadata EXCEPT ![i] = m]
      /\ out' = [NoOut EXCEPT !.op = "update_product", !.ok = (i # 0)]
      /\ UNCHANGED <<index, origin, index_type, diskIndex, diskMeta, cacheVars, live, pending>>

clear_index ==
  /\ Idle
  /\ index' = InitializedIndex
  /\ product_metadata' = <<>>
  /\ origin' = <<>>
  /\ out' = NoOut
  /\ UNCHANGED <<index_type, diskIndex, diskMeta, cacheVars, live, pending>>

\* FAISSIndex.rebuild_index: reinitialise, add the batch, save_index.
\* save_index writes the index file, then the metadata file; an I/O error
\* between the two (saved = FALSE) leaves the old metadata file and re-raises.
rebuild_index(batch, saved) ==
  /\ Idle
  /\ index' = InitializedIndex \o VecsOf(batch)
  /\ product_metadata' = MetasOf(batch)
  /\ origin' = [i \in 1..Len(batch) |-> i]
  /\ diskIndex' = File(index', <<>>)
  /\ diskMeta' = IF saved THEN File(product_metadata', origin') ELSE diskMeta
  /\ out' = [NoOut EXCEPT !.op = "rebuild_index", !.ok = saved]
  /\ UNCHANGED <<index_type, cacheVars, live, pending>>

\* FAISSIndex.save_index: faiss.write_index, then json.dump of the metadata; an
\* I/O error between the two (saved = FALSE) leaves the old metadata file and
\* re-raises
save_index(saved) ==
  /\ Idle
  /\ diskIndex' = File(index, <<>>)
  /\ diskMeta' = IF saved THEN File(product_metadata, origin) ELSE diskMeta
  /\ out' = [NoOut EXCEPT !.op = "save_index", !.ok = saved]
  /\ UNCHANGED <<index, product_metadata, origin, index_type, cacheVars, live, pending>>

\* FAISSIndex._load_existing_index on a freshly constructed store: both files
\* are read when both exist; an exception while reading (readable = FALSE)
\* reinitialises the index, the metadata still being the empty list
LoadExistingIndex(dIndex, dMeta, readable) ==
  IF dIndex.exists /\ dMeta.exists /\ readable
  THEN [index |-> dIndex.data, product_metadata |-> dMeta.data, origin |-> dMeta.origin]
  ELSE [index |-> InitializedIndex, product_metadata |-> <<>>, origin |-> <<>>]

\* the application restarts: FAISSIndex(index_type="HNSW") with load_existing
load(readable) ==
  LET l == LoadExistingIndex(diskIndex, diskMeta, readable)
  IN  /\ Idle
      /\ index' = l.index
      /\ product_metadata' = l.product_metadata
      /\ origin' = l.origin
      /\ out' = [NoOut EXCEPT !.op = "load", !.ok = readable]
      /\ UNCHANGED <<index_type, diskIndex, diskMeta, cacheVars, live, pending>>

\* POST /index/rebuild: "for now, just reinitialize" the index; the vectors
\* the records were inserted with are gone
route_rebuild_index ==
  /\ Idle
  /\ index' = InitializedIndex
  /\ origin' = [i \in 1..Len(origin) |-> 0]
  /\ out' = NoOut
  /\ UNCHANGED <<product_metadata, index_type, diskIndex, diskMeta, cacheVars, live, pending>>

Next ==
  \/ \E p \in Products : add_product(p)
  \/ \E b \in Batches : add_batch_products(b)
  \/ \E b \in Batches : search_and_embed_products(b)
  \/ \E pid \in ProductIds : remove_product(pid)
  \/ \E pid \in ProductIds, m \in Metas : update_product(pid, m)
  \/ \E pid \in ProductIds : get_product_by_id(pid)
  \/ clear_index
  \/ \E b \in Batches : rebuild_index(b, TRUE)
  \/ route_rebuild_index
  \/ Return

Spec == Init /\ [][Next]_vars

\* the persistence workload: the store is changed, saved (a save may be
\* interrupted) and loaded again by a restart
NextPersist ==
  \/ /\ Idle
     /\ \/ \E p \in Products : add_product(p)
        \/ \E pid \in ProductIds : remove_product(pid)
        \/ clear_index
        \/ \E b \in Batches, saved \in BOOLEAN : rebuild_index(b, saved)
        \/ \E saved \in BOOLEAN : save_index(saved)
        \/ \E readable \in BOOLEAN : load(readable)
  \/ Return

SpecPersist == Init /\ [][NextPersist]_vars

\* ------------------------------------------------------------------ queries
\* IndexHNSWFlat(d, 32) compares by squared L2 distance, IndexFlatIP by inner product
IsL2(itype) == itype = "HNSW"

MetricDist(itype, q, v) ==
  IF IsL2(itype)
  THEN (q.len * q.len) \div Unit + (v.len * v.len) \div Unit - 2 * Dot(q, v)
  ELSE Dot(q, v)

\* self.index.search(q, k): k (label, distance) pairs, best first, labels 0-based;
\* slots the index cannot fill carry label -1 and the metric's worst distance.
\* The search is exact, neighbours at equal distance come in insertion order.
IndexSearch(idx, itype, q, k) ==
  LET key(i) == IF IsL2(itype) THEN MetricDist(itype, q, idx[i])
                ELSE 0 - MetricDist(itype, q, idx[i])
      before(j, i) == key(j) < key(i) \/ (key(j) = key(i) /\ j < i)
      rank(i) == Cardinality({ j \in 1..Len(idx) : before(j, i) }) + 1
      at(r) == CHOOSE i \in 1..Len(idx) : rank(i) = r
  IN  [r \in 1..k |->
         IF r <= Len(idx)
         THEN [label |-> at(r) - 1, dist |-> MetricDist(itype, q, idx[at(r)])]
         ELSE [label |-> 0 - 1, dist |-> IF IsL2(itype) THEN FltMax ELSE 0 - FltMax]]

\* 1-based table position that metadata[idx] reads (Python wraps a negative idx)
PyPos(meta, idx) == IF idx >= 0 THEN idx + 1 ELSE Len(meta) + idx + 1

Hit(meta, pos, score) ==
  [product_id |-> meta[pos].product_id, category |-> meta[pos].category,
   price |-> meta[pos].price, similarity_score |-> score, pos |-> pos]

\* filter_categories and metadata.get('category') not in filter_categories
FilteredOut(filt, rec) == filt # {} /\ rec.category \notin filt

\* the loop of FAISSIndex.search over the neighbours, from candidate i on
RECURSIVE SearchLoop(_, _, _, _, _, _, _)
SearchLoop(cands, i, acc, meta, top_k, filt, min_score) ==
  IF i > Len(cands) THEN acc
  ELSE LET c == cands[i]
           pos == PyPos(meta, c.label)
       IN  IF c.label >= Len(meta)
           THEN SearchLoop(cands, i + 1, acc, meta, top_k, filt, min_score)
           ELSE IF c.dist < min_score \/ FilteredOut(filt, meta[pos])
           THEN SearchLoop(cands, i + 1, acc, meta, top_k, filt, min_score)
           ELSE LET acc2 == Append(acc, Hit(meta, pos, c.dist))
                IN  IF Len(acc2) >= top_k THEN acc2
                    ELSE SearchLoop(cands, i + 1, acc2, meta, top_k, filt, min_score)

\* FAISSIndex.search: the returned result list
SearchResults(idx, meta, itype, q, top_k, filt, min_score) ==
  IF Len(meta) = 0 THEN <<>>
  ELSE LET search_k == Min(top_k * SearchOverfetch, Len(meta))
           cands == IndexSearch(idx, itype, Normalize(q), search_k)
       IN  SearchLoop(cands, 1, <<>>, meta, top_k, filt, min_score)

search(q, top_k, filt, min_score) ==
  /\ Idle
  /\ out' = [op |-> "search", ok |-> TRUE,
             results |-> SearchResults(index, product_metadata, index_type,
                                       q, top_k, filt, min_score),
             args |-> [NoArgs EXCEPT !.query = q, !.top_k = top_k,
                                     !.filter_categories = filt, !.min_score = min_score]]
  /\ UNCHANGED <<index, product_metadata, origin, index_type, diskIndex, diskMeta, cacheVars, live, pending>>

IsNone(v) == v = NoneVec

\* 'text_embedding' not in metadata or 'image_embedding' not in metadata
LacksRaw(rec) == IsNone(rec.text_embedding) \/ IsNone(rec.image_embedding)

\* the query vector of hybrid_search (inputs already normalised)
HybridQuery(text, image, alpha) ==
  IF ~IsNone(text) /\ ~IsNone(image) THEN Normalize(WeightedSum(image, text, alpha))
  ELSE IF ~IsNone(image) THEN image
  ELSE text

\* the comparison vector built with a fixed alpha of 0.5 instead of the query's
ProductEmbedding_FixedAlpha(rec, text, image, alpha) ==
  LET prod_text_emb == Normalize(rec.text_embedding)
      prod_img_emb == Normalize(rec.image_embedding)
  IN  Normalize(IF ~IsNone(text) /\ ~IsNone(image)
                THEN WeightedSum(prod_img_emb, prod_text_emb, 50)
                ELSE IF ~IsNone(image) THEN prod_img_emb
                ELSE prod_text_emb)

\* the comparison vector hybrid_search re-derives for a stored record
ProductEmbedding(rec, text, image, alpha) ==
  LET prod_text_emb == Normalize(rec.text_embedding)
      prod_img_emb == Normalize(rec.image_embedding)
  IN  Normalize(IF ~IsNone(text) /\ ~IsNone(image)
                THEN WeightedSum(prod_img_emb, prod_text_emb, alpha)
                ELSE IF ~IsNone(image) THEN prod_img_emb
                ELSE prod_text_emb)

\* the re-scoring loop of hybrid_search over the neighbours, from candidate i on
RECURSIVE RescoreLoop(_, _, _, _, _, _, _, _, _)
RescoreLoop(cands, i, acc, meta, query, text, image, alpha, flt) ==
  IF i > Len(cands) THEN acc
  ELSE LET c == cands[i]
           pos == PyPos(meta, c.label)
           skip == RescoreLoop(cands, i + 1, acc, meta, query, text, image, alpha, flt)
       IN  IF c.label >= Len(meta) THEN skip
           ELSE IF LacksRaw(meta[pos]) THEN skip
           ELSE LET score == Dot(query, ProductEmbedding(meta[pos], text, image, alpha))
                IN  IF score < flt.min_score \/ FilteredOut(flt.cats, meta[pos]) THEN skip
                    ELSE RescoreLoop(cands, i + 1, Append(acc, Hit(meta, pos, score)),
                                     meta, query, text, image, alpha, flt)

\* the re-scored candidates left in the order the index returned them
SortByScoreDesc_Unsorted(rs) == rs

\* list.sort(key=score, reverse=True): descending, equal scores keep their order
SortByScoreDesc(rs) ==
  LET before(j, i) == rs[j].similarity_score > rs[i].similarity_score
                      \/ (rs[j].similarity_score = rs[i].similarity_score /\ j < i)
      rank(i) == Cardinality({ j \in 1..Len(rs) : before(j, i) }) + 1
  IN  [r \in 1..Len(rs) |-> rs[CHOOSE i \in 1..Len(rs) : rank(i) = r]]

\* s[:n] for n >= 0
Take(s, n) == [i \in 1..Min(n, Len(s)) |-> s[i]]

\* every candidate hybrid_search re-scored and kept, before sorting
HybridRescored(idx, meta, itype, text, image, alpha, top_k, filt, min_score) ==
  LET t == IF IsNone(text) THEN text ELSE Normalize(text)
      im == IF IsNone(image) THEN image ELSE Normalize(image)
      query == HybridQuery(t, im, alpha)
      search_k == Min(Len(meta), Max(top_k * HybridOverfetch, HybridMinCandidates))
      cands == IndexSearch(idx, itype, query, search_k)
  IN  RescoreLoop(cands, 1, <<>>, meta, query, t, im, alpha,
                  [cats |-> filt, min_score |-> min_score])

\* hybrid_search with the embedding check placed before the empty-store check
HybridResults_ValidateFirst(idx, meta, itype, text, image, alpha, top_k, filt, min_score) ==
  IF IsNone(text) /\ IsNone(image) THEN [ok |-> FALSE, results |-> <<>>]
  ELSE IF Len(meta) = 0 THEN [ok |-> TRUE, results |-> <<>>]
  ELSE [ok |-> TRUE,
        results |-> Take(SortByScoreDesc(HybridRescored(idx, meta, itype, text, image,
                                                        alpha, top_k, filt, min_score)),
                         top_k)]

\* FAISSIndex.hybrid_search: [ok, results]; ok = FALSE stands for the ValueError
HybridResults(idx, meta, itype, text, image, alpha, top_k, filt, min_score) ==
  IF Len(meta) = 0 THEN [ok |-> TRUE, results |-> <<>>]
  ELSE IF IsNone(text) /\ IsNone(image) THEN [ok |-> FALSE, results |-> <<>>]
  ELSE [ok |-> TRUE,
        results |-> Take(SortByScoreDesc(HybridRescored(idx, meta, itype, text, image,
                                                        alpha, top_k, filt, min_score)),
                         top_k)]

hybrid_search(text, image, alpha, top_k, filt, min_score) ==
  LET r == HybridResults(index, product_metadata, index_type,
                         text, image, alpha, top_k, filt, min_score)
  IN  /\ Idle
      /\ out' = [op |-> "hybrid_search", ok |-> r.ok, results |-> r.results,
                 args |-> [NoArgs EXCEPT !.text = text, !.image = image, !.alpha = alpha,
                                         !.top_k = top_k, !.filter_categories = filt,
                                         !.min_score = min_score]]
      /\ UNCHANGED <<index, product_metadata, origin, index_type, diskIndex, diskMeta, cacheVars, live, pending>>

\* ------------------------------------------------------------ search routes
\* the (category_filter, price_min, price_max) of the route requests; "" and
\* NoPrice stand for None
RouteFilters ==
  { [category_filter |-> "", price_min |-> NoPrice, price_max |-> NoPrice],
    [category_filter |-> "Tops", price_min |-> NoPrice, price_max |-> NoPrice],
    [category_filter |-> "", price_min |-> 40, price_max |-> NoPrice],
    [category_filter |-> "", price_min |-> NoPrice, price_max |-> 40],
    [category_filter |-> "", price_min |-> NoPrice, price_max |-> 0] }

\* POST /search/workflow: the results of faiss_index.search(query, top_k) as
\* they come; the filter fields of the request are not read
WorkflowResults(idx, meta, itype, q, top_k, f) ==
  SearchResults(idx, meta, itype, q, top_k, {}, DefaultMinScore)

workflow_search(q, top_k, f) ==
  /\ Idle
  /\ out' = [op |-> "workflow_search", ok |-> TRUE,
             results |-> WorkflowResults(index, product_metadata, index_type, q, top_k, f),
             args |-> [NoArgs EXCEPT !.query = q, !.top_k = top_k,
                                     !.category_filter = f.category_filter,
                                     !.price_min = f.price_min, !.price_max = f.price_max]]
  /\ UNCHANGED <<index, product_metadata, origin, index_type, diskIndex, diskMeta, cacheVars, live, pending>>

\* truthiness of an optional number: None and 0 are falsy
Given(x) == x # NoPrice /\ x # 0

\* product_data.get('price', default)
PriceOr(rec, default) == IF rec.price = NoPrice THEN default ELSE rec.price

\* the filter of the multipart route: TRUE when the product is skipped.
\* float('inf') > price_max holds for every price_max.
RouteSkips(rec, f) ==
  \/ (f.category_filter # "" /\ rec.category # f.category_filter)
  \/ (Given(f.price_min) /\ PriceOr(rec, 0) < f.price_min)
  \/ (Given(f.price_max) /\ (rec.price = NoPrice \/ rec.price > f.price_max))

\* the results that pass the filter, in order
RECURSIVE RouteFilter(_, _)
RouteFilter(rs, f) ==
  IF rs = <<>> THEN <<>>
  ELSE IF RouteSkips(Head(rs), f) THEN RouteFilter(Tail(rs), f)
  ELSE <<Head(rs)>> \o RouteFilter(Tail(rs), f)

\* POST /search/workflow-multipart with reranking off: search for
\* min(top_k * 2, 20) neighbours, filter, keep the first top_k
MultipartResults(idx, meta, itype, q, top_k, f) ==
  LET found == SearchResults(idx, meta, itype, q,
                             Min(top_k * MultipartOverfetch, MultipartMaxCandidates),
                             {}, DefaultMinScore)
  IN  Take(RouteFilter(found, f), top_k)

workflow_search_multipart(q, top_k, f) ==
  /\ Idle
  /\ out' = [op |-> "workflow_search_multipart", ok |-> TRUE,
             results |-> MultipartResults(index, product_metadata, index_type, q, top_k, f),
             args |-> [NoArgs EXCEPT !.query = q, !.top_k = top_k,
                                     !.category_filter = f.category_filter,
                                     !.price_min = f.price_min, !.price_max = f.price_max]]
  /\ UNCHANGED <<index, product_metadata, origin, index_type, diskIndex, diskMeta, cacheVars, live, pending>>

\* the query workload: the store is filled by inserts, records are removed, the
\* rebuild route is called, and searches run against whatever store results
\* (category filter, min_score) pairs of the requests
Filterings ==
  { [cats |-> {}, min_score |-> DefaultMinScore],
    [cats |-> {"Tops"}, min_score |-> DefaultMinScore],
    [cats |-> {}, min_score |-> 600] }

\* (text, image, alpha) of the hybrid requests: no modality, text only,
\* image only with alpha = 1.0, both modalities at alpha 0.5 and 1.0
Modalities ==
  { [text |-> NoneVec, image |-> NoneVec, alpha |-> 50],
    [text |-> Vec(0, 1000), image |-> NoneVec, alpha |-> 50],
    [text |-> NoneVec, image |-> Vec(120, 2000), alpha |-> 100],
    [text |-> Vec(0, 1000), image |-> Vec(120, 2000), alpha |-> 50],
    [text |-> Vec(0, 1000), image |-> Vec(120, 2000), alpha |-> 100] }

InitQuery ==
  /\ index_type \in IndexTypes
  /\ index = <<>>
  /\ product_metadata = <<>>
  /\ origin = <<>>
  /\ diskIndex = NoFile
  /\ diskMeta = NoFile
  /\ out = NoOut
  /\ CacheOff
  /\ LiveOff
  /\ NoInsert

NextQuery ==
  \/ \E p \in Products : add_product(p)
  \/ \E pid \in ProductIds : remove_product(pid)
  \/ route_rebuild_index
  \/ \E q \in QueryVecs, k \in 1..MaxK, f \in Filterings :
        search(q, k, f.cats, f.min_score)
  \/ \E m \in Modalities, k \in 1..MaxK, f \in Filterings :
        hybrid_search(m.text, m.image, m.alpha, k, f.cats, f.min_score)
  \/ \E q \in QueryVecs, k \in 1..MaxK, f \in RouteFilters : workflow_search(q, k, f)
  \/ \E q \in QueryVecs, k \in 1..MaxK, f \in RouteFilters :
        workflow_search_multipart(q, k, f)
  \/ Return

SpecQuery == InitQuery /\ [][NextQuery]_vars

\* ------------------------------------------------- searches during inserts
\* variant: the records are appended before the vectors
InsertFirstStatement_MetadataFirst(idx, meta, org, batch) ==
  [index |-> idx,
   product_metadata |-> meta \o MetasOf(batch),
   origin |-> org \o [i \in 1..Len(batch) |-> Len(idx) + i]]

\* add_product / add_batch_products after self.index.add(...): the vectors are
\* in the index, the records not yet in the table
InsertFirstStatement(idx, meta, org, batch) ==
  [index |-> idx \o VecsOf(batch), product_metadata |-> meta, origin |-> org]

\* ... and after self.product_metadata.append / extend
InsertSecondStatement(idx, meta, org, batch) ==
  [index |-> idx \o VecsOf(batch),
   product_metadata |-> meta \o MetasOf(batch),
   origin |-> org \o [i \in 1..Len(batch) |-> Len(idx) + i]]

\* an insert runs its first statement; other requests may run before its second
insert_begin(batch) ==
  LET first == InsertFirstStatement(index, product_metadata, origin, batch)
      second == InsertSecondStatement(index, product_metadata, origin, batch)
  IN  /\ NoInsert
      /\ Len(index) + Len(batch) <= MaxProducts
      /\ Len(product_metadata) + Len(batch) <= MaxProducts
      /\ index' = first.index
      /\ product_metadata' = first.product_metadata
      /\ origin' = first.origin
      /\ pending' = [active |-> TRUE, index |-> second.index,
                      product_metadata |-> second.product_metadata,
                      origin |-> second.origin]
      /\ UNCHANGED <<index_type, diskIndex, diskMeta, out, cacheVars, live>>

insert_end ==
  /\ pending.active
  /\ index' = pending.index
  /\ product_metadata' = pending.product_metadata
  /\ origin' = pending.origin
  /\ pending' = NoPending
  /\ UNCHANGED <<index_type, diskIndex, diskMeta, out, cacheVars, live>>

NextInterleave ==
  \/ \E b \in Batches : insert_begin(b)
  \/ insert_end
  \/ /\ Idle
     /\ \E q \in QueryVecs, k \in 1..MaxK, f \in Filterings :
          search(q, k, f.cats, f.min_score)
  \/ Return

SpecInterleave == InitQuery /\ [][NextInterleave]_vars

\* ------------------------------------------------------------ cache manager
\* is_available without its try/except: a failing ping propagates
is_available_NoCatch(cl, probeOk) ==
  IF cl = "none" THEN [avail |-> FALSE, raised |-> ""]
  ELSE IF probeOk THEN [avail |-> TRUE, raised |-> ""]
  ELSE [avail |-> FALSE, raised |-> "ConnectionError"]

\* RedisCacheManager.is_available: ping under a bare except
is_available(cl, probeOk) ==
  IF cl = "none" THEN [avail |-> FALSE, raised |-> ""]
  ELSE IF probeOk THEN [avail |-> TRUE, raised |-> ""]
  ELSE [avail |-> FALSE, raised |-> ""]

\* Redis GET: the value of a key that exists and has not expired
Live(e) == e.present /\ e.age < e.life

Res(ret, raised, store) == [ret |-> ret, raised |-> raised, redis |-> store]

\* RedisCacheManager.set
CacheSet(cl, probeOk, cmdOk, store, key, value, ttl) ==
  LET a == is_available(cl, probeOk)
  IN  IF a.raised # "" THEN Res(RetNone, a.raised, store)
      ELSE IF ~a.avail THEN Res(RetBool(FALSE), "", store)
      ELSE IF ~cmdOk THEN Res(RetBool(FALSE), "", store)
      ELSE LET life == IF ttl = 0 THEN DefaultTTL ELSE ttl
           IN  Res(RetBool(TRUE), "", [store EXCEPT ![key] = Entry(value, life, ttl)])

\* RedisCacheManager.get
CacheGet(cl, probeOk, cmdOk, store, key) ==
  LET a == is_available(cl, probeOk)
  IN  IF a.raised # "" THEN Res(RetNone, a.raised, store)
      ELSE IF ~a.avail THEN Res(RetNone, "", store)
      ELSE IF ~cmdOk THEN Res(RetNone, "", store)
      ELSE IF ~Live(store[key]) THEN Res(RetNone, "", store)
      ELSE Res(RetVal(Unpickle(store[key].data)), "", store)

\* RedisCacheManager.delete
CacheDelete(cl, probeOk, cmdOk, store, key) ==
  LET a == is_available(cl, probeOk)
  IN  IF a.raised # "" THEN Res(RetNone, a.raised, store)
      ELSE IF ~a.avail THEN Res(RetBool(FALSE), "", store)
      ELSE IF ~cmdOk THEN Res(RetBool(FALSE), "", store)
      ELSE Res(RetBool(TRUE), "", [store EXCEPT ![key] = Absent])

\* KEYS pattern: "cmrs:<ns>:*" or "cmrs:*"
Matches(pattern, key) ==
  \/ pattern = "cmrs:*"
  \/ pattern = "cmrs:search:*" /\ key.ns = "search"
  \/ pattern = "cmrs:embedding:*" /\ key.ns = "embedding"

\* RedisCacheManager.invalidate_pattern
CacheInvalidate(cl, probeOk, cmdOk, store, pattern) ==
  LET a == is_available(cl, probeOk)
      keys == { k \in Keys : Live(store[k]) /\ Matches(pattern, k) }
  IN  IF a.raised # "" THEN Res(RetNone, a.raised, store)
      ELSE IF ~a.avail THEN Res(RetInt(0), "", store)
      ELSE IF ~cmdOk THEN Res(RetInt(0), "", store)
      ELSE Res(RetInt(Cardinality(keys)), "",
               [k \in Keys |-> IF k \in keys THEN Absent ELSE store[k]])

CacheIdle == cout = NoCout

Called(op, key, r, probeOk, cmdOk) ==
  [NoCout EXCEPT !.op = op, !.key = key, !.ret = r.ret, !.raised = r.raised,
                 !.probeOk = probeOk, !.cmdOk = cmdOk]

\* a connection that answered the probe may still fail the command (drop)
set(key, value, ttl, drop) ==
  LET r == CacheSet(client, reachable, reachable /\ ~drop, redis, key, value, ttl)
  IN  /\ CacheIdle
      /\ redis' = r.redis
      /\ cout' = Called("set", key, r, reachable, reachable /\ ~drop)
      /\ UNCHANGED <<client, reachable, storeVars, live, pending>>

get(key, drop) ==
  LET r == CacheGet(client, reachable, reachable /\ ~drop, redis, key)
  IN  /\ CacheIdle
      /\ redis' = r.redis
      /\ cout' = Called("get", key, r, reachable, reachable /\ ~drop)
      /\ UNCHANGED <<client, reachable, storeVars, live, pending>>

delete(key, drop) ==
  LET r == CacheDelete(client, reachable, reachable /\ ~drop, redis, key)
  IN  /\ CacheIdle
      /\ redis' = r.redis
      /\ cout' = Called("delete", key, r, reachable, reachable /\ ~drop)
      /\ UNCHANGED <<client, reachable, storeVars, live, pending>>

invalidate_pattern(pattern, drop) ==
  LET r == CacheInvalidate(client, reachable, reachable /\ ~drop, redis, pattern)
  IN  /\ CacheIdle
      /\ redis' = r.redis
      /\ cout' = Called("invalidate_pattern", NoCout.key, r, reachable, reachable /\ ~drop)
      /\ UNCHANGED <<client, reachable, storeVars, live, pending>>

\* the caller takes the outcome of the cache or service call
CacheReturn ==
  /\ ~CacheIdle
  /\ cout' = NoCout
  /\ UNCHANGED <<client, reachable, redis, storeVars, live, pending>>

\* ------------------------------------------------------------- environment
Outage ==
  /\ CacheIdle
  /\ reachable
  /\ reachable' = FALSE
  /\ UNCHANGED <<client, redis, cout, storeVars, live, pending>>

Recover ==
  /\ CacheIdle
  /\ ~reachable
  /\ reachable' = TRUE
  /\ UNCHANGED <<client, redis, cout, storeVars, live, pending>>

\* an hour passes; a key whose time-to-live has elapsed stays in the table until
\* it is overwritten or deleted, but the server no longer serves it (Live)
Tick ==
  /\ CacheIdle
  /\ \E k \in Keys : redis[k].present
  /\ \A k \in Keys : redis[k].present => redis[k].age < MaxAge * TickStep
  /\ redis' = [k \in Keys |->
                 IF ~redis[k].present THEN Absent
                 ELSE [redis[k] EXCEPT !.age = @ + TickStep]]
  /\ UNCHANGED <<client, reachable, cout, storeVars, live, pending>>

\* ----------------------------------------------------------- search service
\* Python truthiness of a cache lookup: None and the empty list are falsy
Truthy(ret) == ret.kind = "val" /\ Len(ret.v) > 0

\* the value the encoder returns for a content
EmbeddingOf(kind, content) == <<kind, content>>

FusionMethods == { "weighted_avg", "concatenation", "element_wise" }

\* variant: an encoder failure is swallowed and the embedding comes back as None
GetOrComputeEmbedding_SwallowFailure(cl, probeOk, cmdOk, store, kind, content, encOk) ==
  LET key == EmbeddingKey(kind, content)
      g == CacheGet(cl, probeOk, cmdOk, store, key)
  IN  IF g.raised # "" THEN Res(RetNone, g.raised, store)
      ELSE IF g.ret.kind # "none" THEN Res(g.ret, "", store)
      ELSE IF ~encOk THEN Res(RetNone, "", store)
      ELSE LET w == CacheSet(cl, probeOk, cmdOk, store, key,
                             EmbeddingOf(kind, content), EmbeddingTTL)
           IN  Res(RetVal(EmbeddingOf(kind, content)), w.raised, w.redis)

\* SearchService._get_or_compute_{image,text}_embedding: cache lookup, encoder
\* call on a miss (encOk = FALSE: the encoder raises), best-effort cache write
GetOrComputeEmbedding(cl, probeOk, cmdOk, store, kind, content, encOk) ==
  LET key == EmbeddingKey(kind, content)
      g == CacheGet(cl, probeOk, cmdOk, store, key)
  IN  IF g.raised # "" THEN Res(RetNone, g.raised, store)
      ELSE IF g.ret.kind # "none" THEN Res(g.ret, "", store)
      ELSE IF ~encOk THEN Res(RetNone, "EncoderFailure", store)
      ELSE LET w == CacheSet(cl, probeOk, cmdOk, store, key,
                             EmbeddingOf(kind, content), EmbeddingTTL)
           IN  Res(RetVal(EmbeddingOf(kind, content)), w.raised, w.redis)

\* FusionEngine.fuse: "" when it returns, otherwise the exception it raises
FuseRaises(hasImage, hasText, method) ==
  IF ~hasImage /\ ~hasText THEN "ValueError"
  ELSE IF ~hasImage \/ ~hasText THEN ""
  ELSE IF method \in FusionMethods THEN ""
  ELSE "ValueError"

\* self.faiss_index.search(fused_embedding, k=top_k * 2): FAISSIndex.search takes
\* (query_embedding, top_k, filter_categories, min_score), the keyword k is unknown
IndexSearchCallRaises == "TypeError"

\* SearchService.search up to its return or the exception that leaves it:
\* [ret, raised, redis, cache_hit, trace]; trace lists the steps taken, an
\* encoder being called (and answering or raising) only when the embedding is
\* not served from the cache
ServiceSearch(cl, probeOk, cmdOk, store, r, encImgOk, encTxtOk) ==
  LET fail(e, st, tr) == [ret |-> RetNone, raised |-> e, redis |-> st,
                          cache_hit |-> FALSE, trace |-> tr]
      cached == CacheGet(cl, probeOk, cmdOk, store, SearchKey(r))
      img == IF r.image # ""
             THEN GetOrComputeEmbedding(cl, probeOk, cmdOk, store, "image", r.image, encImgOk)
             ELSE Res(RetNone, "", store)
      txt == IF r.text # ""
             THEN GetOrComputeEmbedding(cl, probeOk, cmdOk, img.redis, "text", r.text, encTxtOk)
             ELSE Res(RetNone, "", img.redis)
      imgMiss == /\ r.image # ""
                 /\ CacheGet(cl, probeOk, cmdOk, store,
                             EmbeddingKey("image", r.image)).ret.kind = "none"
      txtMiss == /\ r.text # ""
                 /\ CacheGet(cl, probeOk, cmdOk, img.redis,
                             EmbeddingKey("text", r.text)).ret.kind = "none"
      t0 == <<"CacheLookup">>
      t1 == t0 \o <<"ResolveEmbeddings">>
              \o (IF ~imgMiss THEN <<>>
                  ELSE IF encImgOk THEN <<"EncodeImage">> ELSE <<"EncodeImageFails">>)
      t2 == t1 \o (IF ~txtMiss THEN <<>>
                  ELSE IF encTxtOk THEN <<"EncodeText">> ELSE <<"EncodeTextFails">>)
      fuseErr == FuseRaises(img.ret.kind # "none", txt.ret.kind # "none", r.method)
  IN  IF r.filters # "" THEN fail("NameError", store, <<>>)
      ELSE IF cached.raised # "" THEN fail(cached.raised, store, t0)
      ELSE IF Truthy(cached.ret)
      THEN [ret |-> RetVal(Take(cached.ret.v, r.top_k)), raised |-> "",
            redis |-> store, cache_hit |-> TRUE, trace |-> t0 \o <<"Return">>]
      ELSE IF img.raised # "" THEN fail(img.raised, img.redis, t1)
      ELSE IF txt.raised # "" THEN fail(txt.raised, txt.redis, t2)
      ELSE IF fuseErr # "" THEN fail(fuseErr, txt.redis, t2 \o <<"Fuse">>)
      ELSE fail(IndexSearchCallRaises, txt.redis, t2 \o <<"Fuse", "Retrieve">>)

service_search(r, drop, encImgOk, encTxtOk) ==
  LET s == ServiceSearch(client, reachable, reachable /\ ~drop, redis, r, encImgOk, encTxtOk)
  IN  /\ CacheIdle
      /\ redis' = s.redis
      /\ cout' = [NoCout EXCEPT !.op = "search", !.key = SearchKey(r), !.ret = s.ret,
                                !.raised = s.raised, !.req = r, !.cache_hit = s.cache_hit,
                                !.probeOk = reachable, !.cmdOk = reachable /\ ~drop,
                                !.trace = s.trace]
      /\ UNCHANGED <<client, reachable, storeVars, live, pending>>

\* RecommendationRequest: alpha is Field(ge=0.0, le=1.0); check_at_least_one is
\* a validator of 'text' and 'image' without always=True, so it runs only for a
\* field the body carries, and 'text' is in values only once text is validated
RecommendRejects(p) ==
  \/ p.alpha < 0
  \/ p.alpha > 100
  \/ (p.image = "" /\ p.text \in {Omitted, ""})

\* the arguments get_recommendations passes to SearchService.search
RecommendRequest(p) ==
  [Req(IF p.text = Omitted THEN "" ELSE p.text,
       IF p.image = Omitted THEN "" ELSE p.image, "weighted_avg", "", 1)
     EXCEPT !.alpha = p.alpha]

\* POST /recommend: 422 from the request model, 500 for an exception of the
\* service, 200 with its results
recommend(p, drop, encImgOk, encTxtOk) ==
  LET r == RecommendRequest(p)
      s == ServiceSearch(client, reachable, reachable /\ ~drop, redis, r, encImgOk, encTxtOk)
  IN  /\ CacheIdle
      /\ IF RecommendRejects(p)
         THEN /\ cout' = [NoCout EXCEPT !.op = "recommend", !.status = 422, !.payload = p,
                                        !.raised = "ValidationError"]
              /\ UNCHANGED redis
         ELSE /\ redis' = s.redis
              /\ cout' = [NoCout EXCEPT !.op = "recommend", !.key = SearchKey(r),
                                        !.ret = s.ret, !.raised = s.raised, !.req = r,
                                        !.cache_hit = s.cache_hit, !.probeOk = reachable,
                                        !.cmdOk = reachable /\ ~drop,
                                        !.trace = s.trace, !.payload = p,
                                        !.status = IF s.raised # "" THEN 500 ELSE 200]
      /\ UNCHANGED <<client, reachable, storeVars, live, pending>>

\* RedisCacheManager.cache_search_results, called directly
cache_search_results(key, results, ttl, drop) ==
  LET r == CacheSet(client, reachable, reachable /\ ~drop, redis, key, results, ttl)
  IN  /\ CacheIdle
      /\ redis' = r.redis
      /\ cout' = Called("cache_search_results", key, r, reachable, reachable /\ ~drop)
      /\ UNCHANGED <<client, reachable, storeVars, live, pending>>

InitCache ==
  /\ StoreInit
  /\ CacheInit
  /\ LiveOff
  /\ NoInsert

NextCache ==
  \/ /\ CacheIdle
     /\ \/ \E k \in DirectKeys, v \in ResultLists, t \in DirectTTLs, d \in BOOLEAN :
              set(k, v, t, d)
        \/ \E k \in Keys, d \in BOOLEAN : get(k, d)
        \/ \E k \in DirectKeys, d \in BOOLEAN : delete(k, d)
        \/ \E p \in Patterns, d \in BOOLEAN : invalidate_pattern(p, d)
        \/ \E k \in DirectKeys, v \in ResultLists, d \in BOOLEAN :
              cache_search_results(k, v, SearchTTL, d)
        \/ \E r \in Requests, d \in BOOLEAN, ei \in BOOLEAN, et \in BOOLEAN :
              service_search(r, d, ei, et)
        \/ \E p \in Payloads, d \in BOOLEAN, ei \in BOOLEAN, et \in BOOLEAN :
              recommend(p, d, ei, et)
        \/ Outage
        \/ Recover
        \/ Tick
  \/ CacheReturn

SpecCache == InitCache /\ [][NextCache]_vars

\* ------------------------------------------------------------ fusion engine
\* FusionEngine.fuse / CLIPModel.fuse_embeddings called with embeddings (NoneVec
\* stands for None) and a method name
FuseInputs == { NoneVec, Vec(0, 1000), Vec(120, 1000) }

FuseMethods == FusionMethods \cup { "bogus" }

fuse(image, text, alpha, method) ==
  LET e == FuseRaises(~IsNone(image), ~IsNone(text), method)
  IN  /\ Idle
      /\ out' = [NoOut EXCEPT !.op = "fuse", !.ok = (e = ""),
                              !.args.image = image, !.args.text = text,
                              !.args.alpha = alpha, !.args.method = method,
                              !.args.raised = e]
      /\ UNCHANGED <<index, product_metadata, origin, index_type, diskIndex, diskMeta, cacheVars, live, pending>>

\* a scored result: similarity in thousandths and the product's category
Scored(score, category) == [similarity_score |-> score, category |-> category]

ScoredItems ==
  { Scored(s, c) : s \in {0 - 1000, 0 - 400, 500, 900}, c \in {"Tops", "Dresses"} }

ScoredLists == SeqsUpTo(ScoredItems, MaxResults)

\* diversity_weight in hundredths
DiversityWeights == { 0, 50, 100 }

\* selected_categories.count(category) over the first n entries
CountBefore(items, n, category) ==
  Cardinality({ j \in 1..n : items[j].category = category })

\* the factor (1.0 - penalty) in hundredths
PenaltyFactor(w, count) == 100 - w * count

\* FusionEngine.rerank_with_diversity: the re-ranked scores, in units of 1e-5
RerankWithDiversity(items, w) ==
  IF w = 0 THEN [i \in 1..Len(items) |-> items[i].similarity_score * 100]
  ELSE [i \in 1..Len(items) |->
          LET count == CountBefore(items, i - 1, items[i].category)
          IN  IF count > 0 THEN items[i].similarity_score * PenaltyFactor(w, count)
              ELSE items[i].similarity_score * 100]

rerank_with_diversity(items, w) ==
  /\ Idle
  /\ out' = [NoOut EXCEPT !.op = "rerank_with_diversity",
                          !.results = RerankWithDiversity(items, w),
                          !.args.items = items, !.args.diversity_weight = w]
  /\ UNCHANGED <<index, product_metadata, origin, index_type, diskIndex, diskMeta, cacheVars, live, pending>>

\* categories of the results picked so far, as a count
SelectedCount(items, picked, category) ==
  Cardinality({ j \in 1..Len(picked) : items[picked[j]].category = category })

\* one pass of "for idx in remaining": the first index whose penalised score
\* (units of 1e-5) is strictly above every earlier one and above -1; 0 stands
\* for best_idx = None
BestIdx(items, picked, remaining, w) ==
  LET final(i) == items[i].similarity_score
                    * PenaltyFactor(w, SelectedCount(items, picked, items[i].category))
      better == { i \in remaining : final(i) > 0 - 100000 }
  IN  IF better = {} THEN 0
      ELSE CHOOSE i \in better :
             \A j \in better : final(j) < final(i) \/ (final(j) = final(i) /\ i <= j)

\* SearchService._apply_diversity_reranking: [raised, order]; results[None]
\* raises TypeError
RECURSIVE DiversityLoop(_, _, _, _)
DiversityLoop(items, picked, remaining, w) ==
  IF remaining = {} THEN [raised |-> "", order |-> picked]
  ELSE LET best == BestIdx(items, picked, remaining, w)
       IN  IF best = 0 THEN [raised |-> "TypeError", order |-> picked]
           ELSE DiversityLoop(items, Append(picked, best), remaining \ {best}, w)

ApplyDiversityReranking(items, w) ==
  IF items = <<>> THEN [raised |-> "", order |-> <<>>]
  ELSE DiversityLoop(items, <<>>, 1..Len(items), w)

apply_diversity_reranking(items, w) ==
  LET r == ApplyDiversityReranking(items, w)
  IN  /\ Idle
      /\ out' = [NoOut EXCEPT !.op = "apply_diversity_reranking", !.ok = (r.raised = ""),
                              !.results = r.order,
                              !.args.items = items, !.args.diversity_weight = w,
                              !.args.raised = r.raised]
      /\ UNCHANGED <<index, product_metadata, origin, index_type, diskIndex, diskMeta, cacheVars, live, pending>>

NextFusion ==
  \/ /\ Idle
     /\ \/ \E image \in FuseInputs, text \in FuseInputs, method \in FuseMethods :
             fuse(image, text, 70, method)
        \/ \E items \in ScoredLists, w \in DiversityWeights : rerank_with_diversity(items, w)
        \/ \E items \in ScoredLists, w \in DiversityWeights \ {0} :
             apply_diversity_reranking(items, w)
  \/ Return

SpecFusion == Init /\ [][NextFusion]_vars

\* ------------------------------------------------- live-catalogue search
\* the search service that ranks products fetched from the e-commerce sources.
\* Base similarities are in thousandths, boosts and weights in hundredths,
\* scores in units of 0.00001 (a similarity times a boost).

\* the query and product keywords (all longer than two characters)
Words == { "blue", "shirt", "cotton" }

\* a product as a fetcher returns it: image = its image could be downloaded,
\* hash = the perceptual hash of that image, sim = cosine similarity of its
\* image embedding to the query embedding, title / category / description =
\* the keywords the field contains, sentiment / occasion = the factors the
\* sentiment and occasion analysers give it
Candidate(id, image, hash, sim, title, category, description, sentiment, occasion) ==
  [id |-> id, image |-> image, hash |-> hash, sim |-> sim, title |-> title,
   category |-> category, description |-> description,
   sentiment |-> sentiment, occasion |-> occasion]

Catalogue ==
  { Candidate("a1", TRUE, "h1", 900, Words, Words, {}, 110, 120),
    Candidate("a2", TRUE, "h1", 700, {"blue"}, {}, {}, 100, 100),
    Candidate("f1", TRUE, "h2", 700, {"blue"}, {}, {}, 100, 100),
    Candidate("f2", TRUE, "h3", 450, {}, {}, {"shirt"}, 90, 100),
    Candidate("m1", FALSE, "", 0, {"shirt"}, {}, {}, 100, 100) }

CandidateLists == SeqsUpTo(Catalogue, MaxCandidates) \cup { <<>> }

\* text queries as keyword sets ({} stands for None), priority dicts (given =
\* FALSE stands for None)
TextQueries == { {}, {"blue"}, Words }

Priorities ==
  { [given |-> FALSE, image |-> 0, text |-> 0],
    [given |-> TRUE, image |-> 70, text |-> 70],
    [given |-> TRUE, image |-> 100, text |-> 0],
    [given |-> TRUE, image |-> 0, text |-> 0] }

\* the image and text weight after "Normalize weights", in thousandths
AppliedWeights(priority) ==
  LET iw == IF priority.given THEN priority.image ELSE DefaultImageWeight
      tw == IF priority.given THEN priority.text ELSE DefaultTextWeight
      total_weight == iw + tw
  IN  IF total_weight > 0
      THEN [image |-> (iw * 1000) \div total_weight, text |-> (tw * 1000) \div total_weight]
      ELSE [image |-> iw * 10, text |-> tw * 10]

\* s * pct / 100
Scale(s, pct) == (s * pct) \div 100

\* Step 5, the boost of one product, in hundredths
Boost(p, text, image) ==
  LET keyword == IF text = {} THEN 0
                 ELSE 15 * Cardinality(text \cap p.title)
                      + 10 * Cardinality(text \cap p.category)
      visual == IF ~image THEN 0
                ELSE (CASE p.sim > 850 -> 25
                        [] p.sim > 750 -> 20
                        [] p.sim > 650 -> 15
                        [] p.sim > 550 -> 10
                        [] OTHER -> 0)
                     + (IF text # {} /\ p.sim > 600 THEN 10 ELSE 0)
  IN  Min(100 + keyword + visual, BoostCap)

\* title match 3, else category match 2, else description match 1, per keyword
TextMatchScore(p, text) ==
  3 * Cardinality(text \cap p.title)
  + 2 * Cardinality((text \cap p.category) \ p.title)
  + Cardinality((text \cap p.description) \ (p.title \cup p.category))

\* product['score'] after the penalties and bonuses of the query's modality
ModalityScore(p, text, image, score) ==
  LET tms == TextMatchScore(p, text)
      text_bonus == Min((30 * tms) \div Max(Cardinality(text) * 3, 1), 30)
  IN  IF image /\ text # {}
      THEN LET s1 == IF tms = 0 THEN (IF score < 80000 THEN Scale(score, 30) ELSE score)
                     ELSE IF tms < 2 THEN Scale(score, 60)
                     ELSE Scale(score, 100 + text_bonus)
           IN  IF score < 50000 THEN Scale(s1, 70) ELSE s1
      ELSE IF text # {}
      THEN IF tms >= 3 THEN Scale(score, 120)
           ELSE IF tms = 0 THEN Scale(score, 50)
           ELSE score
      ELSE IF score > 70000 THEN score
           ELSE IF score < 40000 THEN Scale(score, 80)
           ELSE score

\* sentiment_analyzer.compute_sentiment_boost: a factor per product
SentimentBoost(p) == p.sentiment

\* variant: the ranked products are returned in the reverse of the order given
RankProductsByContext_Reordered(ps) ==
  [i \in 1..Len(ps) |->
     [ps[Len(ps) + 1 - i] EXCEPT !.score = Scale(ps[Len(ps) + 1 - i].score,
                                                 ps[Len(ps) + 1 - i].occasion)]]

\* occasion_analyzer.rank_products_by_context: the products in the order
\* given, each with final_score = its score times its context factor
RankProductsByContext(ps) ==
  [i \in 1..Len(ps) |-> [ps[i] EXCEPT !.score = Scale(ps[i].score, ps[i].occasion)]]

\* Step 4: the products whose image was downloaded, in fetch order
RECURSIVE ValidProducts(_)
ValidProducts(cands) ==
  IF cands = <<>> THEN <<>>
  ELSE IF Head(cands).image THEN <<Head(cands)>> \o ValidProducts(Tail(cands))
  ELSE ValidProducts(Tail(cands))

\* the hash list built from the product identifiers instead of the images
ImageHashes_OfIds(valid) == [i \in 1..Len(valid) |-> valid[i].id]

\* Step 4: dedup.compute_image_hash(image) of every valid product
ImageHashes(valid) == [i \in 1..Len(valid) |-> valid[i].hash]

\* deduplicator.deduplicate_by_image_hash: the first product of every hash
\* value stays, in order
RECURSIVE KeepFirstSeen(_, _, _)
KeepFirstSeen(products, hashes, i) ==
  IF i > Len(products) THEN <<>>
  ELSE IF \E j \in 1..(i - 1) : hashes[j] = hashes[i]
       THEN KeepFirstSeen(products, hashes, i + 1)
       ELSE <<products[i]>> \o KeepFirstSeen(products, hashes, i + 1)

DeduplicateByImageHash(products, hashes) == KeepFirstSeen(products, hashes, 1)

\* a score that is not a number: the query embedding is 0 / norm(0) when both
\* modalities are fused with weights 0 and 0
NaN == 0 - 1

\* a >= b on floats: no comparison with NaN holds
Geq(a, b) == a # NaN /\ b # NaN /\ a >= b

FusedIsNaN(text, image, weights) ==
  text # {} /\ image /\ weights.image = 0 /\ weights.text = 0

\* Step 5: base similarity times boost, then the modality adjustments and the
\* sentiment boost, for every valid product; cand = position among the valid
\* products
ScoredProducts(valid, text, image, sentimentOn, nan) ==
  [i \in 1..Len(valid) |->
     LET p == valid[i]
         similarity == p.sim * Boost(p, text, image)
         adjusted == ModalityScore(p, text, image, similarity)
         score == IF sentimentOn THEN Scale(adjusted, SentimentBoost(p)) ELSE adjusted
     IN  [id |-> p.id, hash |-> p.hash, occasion |-> p.occasion, cand |-> i,
          sim |-> IF nan THEN NaN ELSE p.sim,
          score |-> IF nan THEN NaN ELSE score]]

\* Step 6, when a context with an occasion or a mood is present
OccasionRanked(ps, occasionOn, nan) ==
  IF occasionOn /\ ~nan THEN RankProductsByContext(ps) ELSE ps

\* valid_products.sort(key=score, reverse=True): descending and stable; with
\* NaN keys no comparison holds and the order stays
SortByFinalScore(ps) ==
  LET before(j, i) == (ps[j].score # NaN /\ ps[i].score # NaN /\ ps[j].score > ps[i].score)
                      \/ (~(ps[j].score # NaN /\ ps[i].score # NaN /\ ps[i].score > ps[j].score)
                          /\ j < i)
      rank(i) == Cardinality({ j \in 1..Len(ps) : before(j, i) }) + 1
  IN  [r \in 1..Len(ps) |-> ps[CHOOSE i \in 1..Len(ps) : rank(i) = r]]

\* scored and deduped (ghost): the valid products after Step 6 and after Step 7
LiveOutcome(raised, results, weights, scored, deduped, args) ==
  [op |-> "search", raised |-> raised, results |-> results, weights |-> weights,
   scored |-> scored, deduped |-> deduped, args |-> args]

\* SearchService.search of the live-catalogue service
LiveSearch(text, image, priority, top_k, cands, sentimentOn, occasionOn) ==
  LET args == [text |-> text, image |-> image, priority |-> priority, top_k |-> top_k,
               cands |-> cands, sentimentOn |-> sentimentOn, occasionOn |-> occasionOn]
      weights == AppliedWeights(priority)
      nan == FusedIsNaN(text, image, weights)
      valid == ValidProducts(cands)
      scored == OccasionRanked(ScoredProducts(valid, text, image, sentimentOn, nan),
                               occasionOn, nan)
      deduped == DeduplicateByImageHash(scored, ImageHashes(valid))
  IN  IF text = {} /\ ~image
      THEN LiveOutcome("ValueError", <<>>, [image |-> 0, text |-> 0], <<>>, <<>>, args)
      ELSE IF valid = <<>>
      THEN LiveOutcome("", <<>>, weights, <<>>, <<>>, args)
      ELSE LiveOutcome("", Take(SortByFinalScore(deduped), top_k), weights,
                       scored, deduped, args)

live_search(text, image, priority, top_k, cands, sentimentOn, occasionOn) ==
  /\ live = NoLive
  /\ live' = LiveSearch(text, image, priority, top_k, cands, sentimentOn, occasionOn)
  /\ UNCHANGED <<storeVars, cacheVars, pending>>

\* the caller takes the response
LiveReturn ==
  /\ live # NoLive
  /\ live' = NoLive
  /\ UNCHANGED <<storeVars, cacheVars, pending>>

InitLive ==
  /\ StoreInit
  /\ CacheOff
  /\ LiveOff
  /\ NoInsert

NextLive ==
  \/ /\ live = NoLive
     /\ \E text \in TextQueries, image \in BOOLEAN, priority \in Priorities,
           top_k \in 1..MaxK, cands \in CandidateLists,
           sentimentOn \in BOOLEAN, occasionOn \in BOOLEAN :
           live_search(text, image, priority, top_k, cands, sentimentOn, occasionOn)
  \/ LiveReturn

SpecLive == InitLive /\ [][NextLive]_vars

\* ================================================================== claims

\* C1: after any sequence of store operations the metadata table is as long as
\* the index holds vectors.
C1_MetadataLenEqualsIndexCount == Len(product_metadata) = Len(index)

\* C2: after any sequence of store operations the record at table position i is
\* the record that was inserted together with index vector i.
C2_PositionsAligned ==
  \A i \in 1..Len(product_metadata) : origin[i] = i /\ i <= Len(index)

\* C3: with the cache reachable, an accepted query that is repeated right after
\* its first call reports cache_hit = true and returns what the first call
\* returned, whatever the result list is.
ValidRequest(r) ==
  (r.text # "" \/ r.image # "") /\ r.method \in FusionMethods /\ r.top_k >= 1

FirstCallDone ==
  /\ cout.op = "search"
  /\ client = "conn" /\ cout.probeOk /\ cout.cmdOk
  /\ ValidRequest(cout.req)
  /\ cout.raised # "EncoderFailure"

C3_RepeatedQueryHits ==
  FirstCallDone =>
    LET second == ServiceSearch(client, TRUE, TRUE, redis, cout.req, TRUE, TRUE)
    IN  second.raised = "" /\ second.cache_hit /\ second.ret = cout.ret

\* C4: when the backing store is unreachable (at construction, at the
\* availability probe, or between the probe and the command) set, get, delete
\* and invalidate_pattern return False, None, False and 0 and raise nothing.
FailureValue(op) ==
  CASE op = "set" -> RetBool(FALSE)
    [] op = "get" -> RetNone
    [] op = "delete" -> RetBool(FALSE)
    [] OTHER -> RetInt(0)

Unreachable == client = "none" \/ ~cout.probeOk \/ ~cout.cmdOk

C4_UnreachableFailsQuietly ==
  (cout.op \in {"set", "get", "delete", "invalidate_pattern"} /\ Unreachable) =>
    (cout.raised = "" /\ cout.ret = FailureValue(cout.op))

\* C4 witness: the connection answered the probe of set and dropped before SETEX
C4_Witness ==
  /\ cout.op = "set"
  /\ client = "conn" /\ cout.probeOk /\ ~cout.cmdOk
  /\ cout.ret = RetBool(FALSE)

\* C5: an entry written with a TTL is not served once the TTL has elapsed, and
\* an accepted query repeated after the search-result TTL has expired is
\* recomputed and answered with cache_hit = false.
Expired(e) == e.present /\ e.ttl > 0 /\ e.age >= e.ttl

C5_ExpiredEntryRecomputed ==
  /\ (cout.op = "get" /\ Expired(redis[cout.key])) => cout.ret = RetNone
  /\ (FirstCallDone /\ Expired(redis[cout.key]) /\ redis[cout.key].ttl = SearchTTL) =>
       (cout.raised = "" /\ ~cout.cache_hit)

\* C6: on a store without entries search and hybrid_search return an empty
\* list and raise nothing, for every query and every k.
C6_EmptyStoreEmptyResult ==
  (out.op \in {"search", "hybrid_search"} /\ Len(product_metadata) = 0) =>
    (out.ok /\ out.results = <<>>)

\* C6 witness: hybrid_search without any embedding on an empty table whose
\* index still holds a vector
C6_Witness ==
  /\ out.op = "hybrid_search"
  /\ Len(product_metadata) = 0 /\ Len(index) > 0
  /\ IsNone(out.args.text) /\ IsNone(out.args.image)
  /\ out.ok

Positions(rs) == [i \in 1..Len(rs) |-> rs[i].pos]

\* C7: for every store and every image query, hybrid_search with alpha = 1.0
\* and no text embedding returns the products of search, in the same order.
C7_ImageOnlyHybridIsKnn ==
  \A q \in QueryVecs, k \in 1..MaxK :
    LET h == HybridResults(index, product_metadata, index_type, NoneVec, q, 100, k,
                           {}, DefaultMinScore)
        s == SearchResults(index, product_metadata, index_type, q, k, {}, DefaultMinScore)
    IN  h.ok /\ Positions(h.results) = Positions(s)

Count(seq, x) == Cardinality({ i \in 1..Len(seq) : seq[i] = x })

Rescored ==
  HybridRescored(index, product_metadata, index_type, out.args.text, out.args.image,
                 out.args.alpha, out.args.top_k, out.args.filter_categories,
                 out.args.min_score)

HybridAnswered ==
  /\ out.op = "hybrid_search" /\ out.ok
  /\ Len(product_metadata) > 0

\* C8: hybrid_search returns at most k results, in non-increasing order of the
\* recomputed score, and they are the k best of the candidates that were
\* re-scored and passed the filters.
C8_HybridTopK ==
  HybridAnswered =>
    LET res == out.results
    IN  /\ Len(res) = Min(out.args.top_k, Len(Rescored))
        /\ \A i \in 1..(Len(res) - 1) :
             res[i].similarity_score >= res[i + 1].similarity_score
        /\ \A i \in 1..Len(res) : Count(res, res[i]) <= Count(Rescored, res[i])
        /\ \A j \in 1..Len(Rescored) :
             Count(Rescored, Rescored[j]) > Count(res, Rescored[j]) =>
               \A i \in 1..Len(res) :
                 res[i].similarity_score >= Rescored[j].similarity_score

\* C8 witness: more candidates than k were re-scored and the recomputed scores
\* reverse the order the index returned them in
C8_Witness ==
  /\ HybridAnswered
  /\ Len(Rescored) > out.args.top_k
  /\ Rescored[1].similarity_score < Rescored[2].similarity_score
  /\ Len(out.results) = out.args.top_k

\* the vector a request's alpha and modality combination yields from a pair of
\* raw embeddings
ClaimedVector(text, image, a) ==
  IF ~IsNone(a.text) /\ ~IsNone(a.image)
  THEN Normalize(WeightedSum(Normalize(image), Normalize(text), a.alpha))
  ELSE IF ~IsNone(a.image) THEN Normalize(image)
  ELSE Normalize(text)

C10_ScoresInUnitInterval ==
  (out.op \in {"search", "hybrid_search"}) =>
    \A i \in 1..Len(out.results) :
      0 <= out.results[i].similarity_score /\ out.results[i].similarity_score <= Unit

\* every record sits at the position of the vector it was inserted with
StoreAligned ==
  /\ Len(index) = Len(product_metadata)
  /\ \A i \in 1..Len(origin) : origin[i] = i

PlainSearchAnswered ==
  /\ out.op = "search"
  /\ out.args.filter_categories = {}
  /\ out.args.min_score = DefaultMinScore
  /\ StoreAligned

\* C11: search without filters on a store of n products returns min(k, n)
\* results, the closest product first, with non-increasing scores.
C11_SearchNearestFirst ==
  PlainSearchAnswered =>
    LET res == out.results
        q == Normalize(out.args.query)
    IN  /\ Len(res) = Min(out.args.top_k, Len(product_metadata))
        /\ \A i \in 1..(Len(res) - 1) :
             /\ Dot(q, index[res[i].pos]) >= Dot(q, index[res[i + 1].pos])
             /\ res[i].similarity_score >= res[i + 1].similarity_score

FilteredSearchAnswered ==
  \/ out.op = "search" /\ out.args.filter_categories # {}
  \/ /\ out.op \in {"workflow_search", "workflow_search_multipart"}
     /\ \/ out.args.category_filter # ""
        \/ out.args.price_min # NoPrice
        \/ out.args.price_max # NoPrice

\* C12: every result of a search with a category filter has a category of the
\* filter, every result of a search with price bounds has a price within the
\* bounds, and the result holds at most k products.
C12_FiltersRespected ==
  FilteredSearchAnswered =>
    LET a == out.args
    IN  /\ Len(out.results) <= a.top_k
        /\ \A i \in 1..Len(out.results) :
             LET r == out.results[i]
             IN  /\ a.filter_categories # {} => r.category \in a.filter_categories
                 /\ a.category_filter # "" => r.category = a.category_filter
                 /\ a.price_min # NoPrice => (r.price # NoPrice /\ r.price >= a.price_min)
                 /\ a.price_max # NoPrice => (r.price # NoPrice /\ r.price <= a.price_max)

LiveAnswered == live.op = "search" /\ live.raised = "" /\ live.scored # <<>>

C14_BoostCeiling ==
  LiveAnswered =>
    \A i \in 1..Len(live.scored) :
      LET p == live.scored[i]
      IN  p.score # NaN => p.score <= p.sim * BoostCap

\* C15: the returned list is in non-increasing order of the final score, and
\* products with equal final score keep their candidate order.
C15_SortedByFinalScore ==
  LiveAnswered =>
    \A i, j \in 1..Len(live.results) :
      i < j =>
        /\ Geq(live.results[i].score, live.results[j].score)
        /\ live.results[i].score = live.results[j].score =>
             live.results[i].cand < live.results[j].cand

\* a body with neither a text nor an image, or with a weight outside [0, 1]
InvalidPayload(p) ==
  \/ (p.text \in {Omitted, ""} /\ p.image \in {Omitted, ""})
  \/ p.alpha < 0
  \/ p.alpha > 100

\* C16: a query that supplies neither a text nor an image, or whose weight is
\* outside [0, 1], is rejected with a validation error before any cache access,
\* encoder call or index access
C16_InvalidRejectedFirst ==
  (cout.op = "recommend" /\ InvalidPayload(cout.payload))
    => (cout.status = 422 /\ cout.trace = <<>>)

\* C17: for every accepted query that is fused from an image and a text, the
\* image weight and the text weight applied in the fusion sum to 1 (1000
\* thousandths, up to the rounding of the division), whatever pair was supplied
C17_AppliedWeightsSumToOne ==
  (live.op = "search" /\ live.raised = "" /\ live.args.image /\ live.args.text # {})
    => (live.weights.image + live.weights.text) \in 999..1001

\* the stages of a request in the order the claim gives them
StageOrder ==
  <<"Validate", "ResolveEmbeddings", "Fuse", "CacheLookup", "Retrieve",
    "ApplyExternalBoosts", "Dedup", "DiversityRerank", "CacheWrite", "Return">>

\* an encoder call is part of resolving the embeddings
StageOf(e) ==
  IF e \in {"EncodeImage", "EncodeImageFails", "EncodeText", "EncodeTextFails"}
  THEN "ResolveEmbeddings" ELSE e

StageRank(e) == CHOOSE i \in 1..Len(StageOrder) : StageOrder[i] = StageOf(e)

InStageOrder(tr) ==
  \A i \in 1..Len(tr) : \A j \in 1..Len(tr) : i < j => StageRank(tr[i]) <= StageRank(tr[j])

Passed(tr, stage) == \E i \in 1..Len(tr) : tr[i] = stage

\* C18: the steps of a request follow the order Validate, ResolveEmbeddings,
\* Fuse, CacheLookup, Retrieve, boosts, Dedup, DiversityRerank, CacheWrite,
\* Return: the embeddings are resolved and fused before the result-cache lookup,
\* a cache hit returns without Retrieve or CacheWrite, and a request that
\* reaches Retrieve goes on to CacheWrite and then Return
C18_StagesInOrder ==
  cout.op = "search" =>
    /\ InStageOrder(cout.trace)
    /\ Passed(cout.trace, "CacheLookup")
         => (Passed(cout.trace, "ResolveEmbeddings") /\ Passed(cout.trace, "Fuse"))
    /\ cout.cache_hit
         => (~Passed(cout.trace, "Retrieve") /\ ~Passed(cout.trace, "CacheWrite"))
    /\ Passed(cout.trace, "Retrieve")
         => /\ Len(cout.trace) >= 2
            /\ cout.trace[Len(cout.trace) - 1] = "CacheWrite"
            /\ cout.trace[Len(cout.trace)] = "Return"

\* an encoder was called for a requested modality and raised
EncoderFailed(tr) == Passed(tr, "EncodeImageFails") \/ Passed(tr, "EncodeTextFails")

\* C19: when the encoder of a requested modality fails, the request ends with
\* an error: nothing is returned, the steps end at the failed encoder call (no
\* fusion with the other modality, no retrieval), and no search-result cache
\* entry is written
C19_EncoderFailureEndsRequest ==
  [][(cout = NoCout /\ cout'.op \in {"search", "recommend"} /\ EncoderFailed(cout'.trace))
       => /\ cout'.raised # ""
          /\ cout'.ret = RetNone
          /\ ~cout'.cache_hit
          /\ EncoderFailed(<<cout'.trace[Len(cout'.trace)]>>)
          /\ ~Passed(cout'.trace, "Fuse")
          /\ ~Passed(cout'.trace, "Retrieve")
          /\ ~Passed(cout'.trace, "CacheWrite")
          /\ cout'.op = "recommend" => cout'.status = 500
          /\ \A k \in SearchKeys : redis'[k] = redis[k]]_vars

\* a request for both modalities whose image was encoded and whose text
\* encoder failed has ended with the encoder's error
C19_Witness ==
  /\ cout.op = "search"
  /\ cout.req.image # "" /\ cout.req.text # ""
  /\ Passed(cout.trace, "EncodeImage")
  /\ Passed(cout.trace, "EncodeTextFails")
  /\ cout.raised = "EncoderFailure"
\* C20: after a load the store holds either exactly the persisted index with
\* the persisted metadata, of the same size, or an empty index with an empty
\* metadata table
C20_LoadAllOrNothing ==
  out.op = "load" =>
    \/ /\ diskIndex.exists /\ diskMeta.exists
       /\ index = diskIndex.data
       /\ product_metadata = diskMeta.data
       /\ Len(index) = Len(product_metadata)
    \/ (index = <<>> /\ product_metadata = <<>>)

\* C21: a remove_product(id) that returns true leaves the index vector count
\* unchanged, and afterwards get_product_by_id(id) finds nothing and no search
\* returns a product with that id; one that returns false changes nothing
C21_RemovedIsGone ==
  [][(out = NoOut /\ out'.op = "remove_product")
       => IF out'.ok
          THEN /\ Len(index') = Len(index)
               /\ GetProductById(product_metadata', out'.args.product_id) = 0
               /\ \A q \in QueryVecs, k \in 1..MaxK :
                    LET res == SearchResults(index', product_metadata', index_type', q, k,
                                             {}, DefaultMinScore)
                    IN  \A j \in 1..Len(res) : res[j].product_id # out'.args.product_id
          ELSE /\ index' = index
               /\ product_metadata' = product_metadata]_vars

\* C22: fuse fails when neither embedding is provided, and fails whenever the
\* method is not one of weighted_avg, concatenation, element_wise, whichever
\* embeddings are provided
C22_FuseRejectsBadInput ==
  out.op = "fuse" =>
    /\ (IsNone(out.args.image) /\ IsNone(out.args.text)) => out.args.raised # ""
    /\ out.args.method \notin FusionMethods => out.args.raised # ""

\* C23: diversity re-ranking never increases a score: for every score list,
\* category list and diversity_weight in [0, 1] each output score is at most the
\* input score, the factor applied lies in (0, 1], and with diversity_weight = 0
\* the scores are unchanged
C23_DiversityNeverIncreases ==
  out.op = "rerank_with_diversity" =>
    LET items == out.args.items
        w == out.args.diversity_weight
    IN  /\ Len(out.results) = Len(items)
        /\ \A i \in 1..Len(items) :
             LET count == CountBefore(items, i - 1, items[i].category)
                 factor == IF count > 0 /\ w # 0 THEN PenaltyFactor(w, count) ELSE 100
             IN  /\ out.results[i] <= items[i].similarity_score * 100
                 /\ factor > 0 /\ factor <= 100
        /\ w = 0 => \A i \in 1..Len(items) : out.results[i] = items[i].similarity_score * 100

\* C28: for every non-empty result list and every diversity_weight in (0, 1]
\* _apply_diversity_reranking ends without error and returns a permutation of
\* its input
C28_DiversityRerankPermutes ==
  (out.op = "apply_diversity_reranking" /\ out.args.items # <<>>) =>
    /\ out.args.raised = ""
    /\ Len(out.results) = Len(out.args.items)
    /\ \A i \in 1..Len(out.args.items) : \E j \in 1..Len(out.results) : out.results[j] = i

\* C24: no two records of the metadata table have the same product identifier
C24_UniqueProductIds ==
  \A i \in 1..Len(product_metadata) : \A j \in 1..Len(product_metadata) :
    i # j => product_metadata[i].product_id # product_metadata[j].product_id

\* C25: a search that runs at any point of an insert, also between the index
\* append and the metadata append, returns only records paired with their own
\* vectors: every hit is a table position whose record was inserted with the
\* index vector at that position, and its score is that vector's
C25_SearchDuringInsert ==
  out.op = "search" =>
    \A j \in 1..Len(out.results) :
      LET pos == out.results[j].pos
      IN  /\ pos \in 1..Len(product_metadata)
          /\ pos <= Len(index)
          /\ origin[pos] = pos
          /\ out.results[j].product_id = product_metadata[pos].product_id
          /\ out.results[j].similarity_score
               = MetricDist(index_type, Normalize(out.args.query), index[pos])

\* a search ran between the two statements of an insert into a store that
\* already held a record, and returned a record
C25_Witness ==
  /\ out.op = "search"
  /\ pending.active
  /\ Len(index) > Len(product_metadata)
  /\ Len(out.results) > 0

\* C26: a result served from the search-result cache is the result of a request
\* with the same top_k and diversity_weight: the key a hit is served under is
\* the key of no request that differs in top_k or diversity_weight
C26_CachedResultIsOwn ==
  (cout.op = "search" /\ cout.cache_hit)
    => \A r \in Requests :
         SearchKey(r) = cout.key
           => (r.top_k = cout.req.top_k /\ r.diversity_weight = cout.req.diversity_weight)

\* C27: search and hybrid_search never return the same metadata record twice
\* in one result list, and every returned record belongs to a vector position
\* that exists in the index
C27_NoRepeatNoPhantom ==
  out.op \in {"search", "hybrid_search"} =>
    /\ \A i \in 1..Len(out.results) : \A j \in 1..Len(out.results) :
         i # j => out.results[i].pos # out.results[j].pos
    /\ \A i \in 1..Len(out.results) : out.results[i].pos \in 1..Len(index)

C30_LookupsAgree ==
  \A pid \in ProductIds :
    GetProductById(product_metadata, pid) = FirstMatch(product_metadata, pid)

====
